---- MODULE Spec2Model ----
(***************************************************************************)
(* Model of dtransform.Spectrum: a truncated multivariate power series     *)
(* (coefficient table keyed by multi-index) with its constructor, its      *)
(* arithmetic operators and inverse().  Coefficients are exact rationals   *)
(* <<numerator, denominator>>, as the symbolic engine computes them.       *)
(***************************************************************************)
EXTENDS Integers, Sequences, FiniteSets, TLC

VARIABLES objs, heap, last, div, nmut

vars == <<objs, heap, last, div, nmut>>

\* Bounds of the model.
MaxOrder == 2
MaxObjs == 3
MaxMutations == 1

-----------------------------------------------------------------------------
\* Exact rational arithmetic of the symbolic engine.

Abs(n) == IF n < 0 THEN -n ELSE n

RECURSIVE GCD(_, _)
GCD(a, b) == IF b = 0 THEN a ELSE GCD(b, a % b)

Rat(n, d) ==
    LET s == IF d < 0 THEN -1 ELSE 1
        g == GCD(Abs(n), Abs(d))
    IN  << (s * n) \div g, (s * d) \div g >>

Zero == <<0, 1>>
RInt(n) == <<n, 1>>
RAdd(p, q) == Rat(p[1] * q[2] + q[1] * p[2], p[2] * q[2])
RNeg(p) == << -p[1], p[2] >>
RSub(p, q) == RAdd(p, RNeg(q))
RMul(p, q) == Rat(p[1] * q[1], p[2] * q[2])
RDiv(p, q) == Rat(p[1] * q[2], p[2] * q[1])

RECURSIVE Factorial(_)
Factorial(n) == IF n = 0 THEN 1 ELSE n * Factorial(n - 1)

RECURSIVE Pow(_, _)
Pow(b, e) == IF e = 0 THEN 1 ELSE b * Pow(b, e - 1)

RECURSIVE RPow(_, _)
RPow(b, e) == IF e = 0 THEN RInt(1) ELSE RMul(b, RPow(b, e - 1))

\* dict.get(key, default)
Get(d, k, default) == IF k \in DOMAIN d THEN d[k] ELSE default

\* d[k] = v on a dict
Put(d, k, v) == [x \in DOMAIN d \cup {k} |-> IF x = k THEN v ELSE d[x]]

\* the empty dict
EmptyDict == [x \in {} |-> 0]

\* center | kwargs : right operand wins
Merge(d, e) == [x \in DOMAIN d \cup DOMAIN e |-> IF x \in DOMAIN e THEN e[x] ELSE d[x]]

-----------------------------------------------------------------------------
\* itertools.product over range(b) for each bound b of bs, in its
\* lexicographic order (last position fastest).

RECURSIVE Extend(_, _, _)
Extend(p, v, b) == IF v >= b THEN <<>> ELSE <<Append(p, v)>> \o Extend(p, v + 1, b)

RECURSIVE ExtendAll(_, _)
ExtendAll(ps, b) ==
    IF ps = <<>> THEN <<>> ELSE Extend(Head(ps), 0, b) \o ExtendAll(Tail(ps), b)

RECURSIVE Product(_)
Product(bs) ==
    IF bs = <<>> THEN << <<>> >>
    ELSE ExtendAll(Product(SubSeq(bs, 1, Len(bs) - 1)), bs[Len(bs)])

\* [range(order)] * n
Repeat(b, n) == [m \in 1..n |-> b]

\* [range(k + 1) for k in idx]
UpTo(idx) == [m \in 1..Len(idx) |-> idx[m] + 1]

\* tuple(k - l for k, l in zip(idx, i))
Minus(idx, i) == [m \in 1..Len(idx) |-> idx[m] - i[m]]

-----------------------------------------------------------------------------
\* The symbolic engine on polynomial expressions.  An expression is a set of
\* terms [c |-> integer coefficient, e |-> exponent of each symbol].

Alphabet == <<"x", "y", "z">>
Symbols == {"x", "y"}

Term(c, ex, ey) == [c |-> c, e |-> [v \in Symbols |-> IF v = "x" THEN ex ELSE ey]]

Exprs == {"1 + x", "x*y", "2 + x + y"}

Sympify(expr) ==
    CASE expr = "1 + x" -> {Term(1, 0, 0), Term(1, 1, 0)}
      [] expr = "x*y" -> {Term(1, 1, 1)}
      [] expr = "2 + x + y" -> {Term(2, 0, 0), Term(1, 1, 0), Term(1, 0, 1)}

FreeSymbols(p) == {v \in Symbols : \E t \in p : t.e[v] > 0}

\* tuple(sorted(free_symbols, key=name))
SortedVariables(p) == SelectSeq(Alphabet, LAMBDA v : v \in FreeSymbols(p))

\* m * (m-1) * ... * (m-k+1)
RECURSIVE Falling(_, _)
Falling(m, k) == IF k = 0 THEN 1 ELSE m * Falling(m - 1, k - 1)

\* sp.diff(p, v, k)
Diff(p, v, k) ==
    { [c |-> t.c * Falling(t.e[v], k), e |-> [t.e EXCEPT ![v] = @ - k]] :
        t \in {u \in p : u.e[v] >= k} }

TermAt(t, point) ==
    LET xs == [v \in Symbols |-> Pow(Get(point, v, 1), t.e[v])]
    IN  t.c * xs["x"] * xs["y"]

RECURSIVE SumTerms(_, _)
SumTerms(p, point) ==
    IF p = {} THEN 0
    ELSE LET t == CHOOSE u \in p : TRUE
         IN  TermAt(t, point) + SumTerms(p \ {t}, point)

\* p.subs(point), every free symbol of p being a key of point
Subs(p, point) == SumTerms(p, point)

-----------------------------------------------------------------------------
\* Spectrum.__init__

\* deriv after "for var, k in zip(variables, multi_idx): deriv = diff(deriv, var, k)"
RECURSIVE DerivFrom(_, _, _, _)
DerivFrom(p, variables, idx, m) ==
    IF m > Len(variables) THEN p
    ELSE DerivFrom(Diff(p, variables[m], idx[m]), variables, idx, m + 1)

\* sp.prod([sp.factorial(k) for k in multi_idx])
RECURSIVE Denom(_)
Denom(idx) == IF idx = <<>> THEN 1 ELSE Factorial(Head(idx)) * Denom(Tail(idx))

\* sp.prod([scaling[var] ** k for var, k in zip(variables, multi_idx)])
RECURSIVE HTerms(_, _, _)
HTerms(scaling, variables, idx) ==
    IF idx = <<>> THEN 1
    ELSE Pow(scaling[Head(variables)], Head(idx)) * HTerms(scaling, Tail(variables), Tail(idx))

\* value = deriv.subs(center) * H_terms / denom
CoeffValue(p, variables, center, scaling, idx) ==
    Rat(Subs(DerivFrom(p, variables, idx, 1), center) * HTerms(scaling, variables, idx),
        Denom(idx))

\* the loop "for multi_idx in product(...): coeffs[multi_idx] = value"
RECURSIVE FillCoeffs(_, _, _, _, _, _)
FillCoeffs(p, variables, center, scaling, todo, coeffs) ==
    IF todo = <<>> THEN coeffs
    ELSE FillCoeffs(p, variables, center, scaling, Tail(todo),
                    Put(coeffs, Head(todo),
                        CoeffValue(p, variables, center, scaling, Head(todo))))

\* a constructor that stores the non-zero coefficients only
InitCoeffsNonZero(p, variables, order, center, scaling) ==
    LET all == FillCoeffs(p, variables, center, scaling,
                          Product(Repeat(order, Len(variables))), EmptyDict)
    IN  [k \in {x \in DOMAIN all : all[x] # Zero} |-> all[k]]

InitCoeffs(p, variables, order, center, scaling) ==
    FillCoeffs(p, variables, center, scaling,
               Product(Repeat(order, Len(variables))), EmptyDict)

\* isinstance(order, int) and order > 0
OrderOk(order) == order.int /\ order.v > 0

\* the scaling test written "< 0"
BadScalesNegativeOnly(variables, scaling) ==
    SelectSeq(variables, LAMBDA v : Get(scaling, v, 1) < 0)

\* the variables, in order, whose scaling constant is rejected
BadScales(variables, scaling) ==
    SelectSeq(variables, LAMBDA v : Get(scaling, v, 1) <= 0)

InitCenter(variables, center) ==
    [v \in {variables[m] : m \in 1..Len(variables)} |-> Get(center, v, 0)]

InitScaling(variables, scaling) ==
    [v \in {variables[m] : m \in 1..Len(variables)} |-> Get(scaling, v, 1)]

\* The exception __init__ raises for its arguments, or "" when it returns.
InitError(expr, order, scaling) ==
    IF ~OrderOk(order) THEN [exc |-> "ValueError", msg |-> "Order must be a positive integer", var |-> ""]
    ELSE LET bad == BadScales(SortedVariables(Sympify(expr)), scaling)
         IN  IF bad # <<>>
             THEN [exc |-> "ValueError", msg |-> "Scaling constant for variable", var |-> Head(bad)]
             ELSE [exc |-> "", msg |-> "", var |-> ""]

-----------------------------------------------------------------------------
\* State: objs is the sequence of Spectrum objects created so far, each
\* holding references into heap, the store of dict objects.  last records
\* the most recent call and how it ended; an exception is not caught, so
\* nothing runs after one.  div is the position of a division that is run
\* one pass of its outer loop at a time; nmut counts the writes a client made
\* through the dicts the properties expose.

IntOrder(n) == [int |-> TRUE, v |-> n]
FloatOrder(n) == [int |-> FALSE, v |-> n]

Point(x, y) == [v \in {"x", "y"} |-> IF v = "x" THEN x ELSE y]
Only(name, value) == [v \in {name} |-> value]

Args(order, center, scaling, kwargs) ==
    [order |-> order, center |-> center, scaling |-> scaling, kwargs |-> kwargs]

\* The keyword arguments the constructor is called with (center None is {}).
ArgSets ==
    { Args(IntOrder(MaxOrder), Point(1, 2), EmptyDict, EmptyDict),
      Args(IntOrder(MaxOrder - 1), Point(1, 2), EmptyDict, EmptyDict),
      Args(IntOrder(MaxOrder), Point(1, 2), Only("x", 2), EmptyDict),
      Args(IntOrder(MaxOrder), Point(1, 2), EmptyDict, Point(0, 0)),
      Args(IntOrder(MaxOrder), Point(1, 2), Only("z", -1), EmptyDict),
      Args(IntOrder(MaxOrder), Point(1, 2), Only("y", 0), EmptyDict),
      Args(IntOrder(MaxOrder), Point(1, 2), Point(-1, 0), EmptyDict),
      Args(IntOrder(0), Point(1, 2), EmptyDict, EmptyDict),
      Args(IntOrder(0), Point(1, 2), Only("y", 0), EmptyDict),
      Args(FloatOrder(MaxOrder), Point(1, 2), EmptyDict, EmptyDict) }

Scalars == {Zero, RInt(2)}

\* the Series the client constructs itself (s1, s2); all others are results
Operands == <<"s1", "s2">>

NoCall == [op |-> "none", a |-> 0, b |-> 0, arg |-> 0, res |-> 0,
           exc |-> "", msg |-> "", var |-> ""]

Call(op, a, b, arg, res, exc, msg, var) ==
    [op |-> op, a |-> a, b |-> b, arg |-> arg, res |-> res,
     exc |-> exc, msg |-> msg, var |-> var]

Raise(op, a, b, arg, exc, msg) ==
    /\ last' = Call(op, a, b, arg, 0, exc, msg, "")
    /\ UNCHANGED <<objs, heap>>

Center(s) == heap[s.center]
Scaling(s) == heap[s.scaling]
Coeffs(s) == heap[s.coeffs]

NoDiv == [active |-> FALSE, a |-> 0, b |-> 0, pos |-> 0, coeffs |-> EmptyDict]

\* no call is running and no exception has ended the program
Idle == last.exc = "" /\ ~div.active

Init ==
    /\ objs = <<>>
    /\ heap = <<>>
    /\ last = NoCall
    /\ div = NoDiv
    /\ nmut = 0

Construct(expr, args) ==
    LET err == InitError(expr, args.order, args.scaling)
        input == [expr |-> expr, order |-> args.order, scaling |-> args.scaling]
        p == Sympify(expr)
        variables == SortedVariables(p)
        c == InitCenter(variables, Merge(args.center, args.kwargs))
        h == InitScaling(variables, args.scaling)
        n == Len(heap)
    IN  /\ Idle
        /\ Len(objs) < Len(Operands)
        /\ IF err.exc # ""
           THEN /\ last' = Call("init", 0, 0, input, 0, err.exc, err.msg, err.var)
                /\ UNCHANGED <<objs, heap>>
           ELSE /\ heap' = heap \o <<c, h, InitCoeffs(p, variables, args.order.v, c, h)>>
                /\ objs' = Append(objs, [expr |-> expr, order |-> args.order.v,
                                          variables |-> variables, center |-> n + 1,
                                          scaling |-> n + 2, coeffs |-> n + 3])
                /\ last' = Call("init", 0, 0, input, Len(objs) + 1, "", "", "")
        /\ UNCHANGED <<div, nmut>>

\* Spectrum.clone followed by "new.__coeffs = coeffs": the operators' result
Result(op, a, b, arg, coeffs) ==
    /\ heap' = Append(heap, coeffs)
    /\ objs' = Append(objs, [objs[a] EXCEPT !.coeffs = Len(heap) + 1])
    /\ last' = Call(op, a, b, arg, Len(objs) + 1, "", "", "")

\* _check_compatibility comparing the centers before the scalings
CheckCompatibilityCenterFirst(self, other) ==
    IF self.variables # other.variables THEN "Variables do not match."
    ELSE IF self.order # other.order THEN "Expansion order mismatch."
    ELSE IF heap[self.center] # heap[other.center] THEN "Expansion center mismatch."
    ELSE IF heap[self.scaling] # heap[other.scaling] THEN "Scaling constants mismatch."
    ELSE ""

\* Spectrum._check_compatibility: the message of the ValueError, or ""
CheckCompatibility(self, other) ==
    IF self.variables # other.variables THEN "Variables do not match."
    ELSE IF self.order # other.order THEN "Expansion order mismatch."
    ELSE IF Scaling(self) # Scaling(other) THEN "Scaling constants mismatch."
    ELSE IF Center(self) # Center(other) THEN "Expansion center mismatch."
    ELSE ""

\* Spectrum.__neg__
NegCoeffs(a) == [k \in DOMAIN a |-> RNeg(a[k])]

Neg(a) ==
    /\ Idle
    /\ Len(objs) < MaxObjs
    /\ Result("neg", a, 0, 0, NegCoeffs(Coeffs(objs[a])))
    /\ UNCHANGED <<div, nmut>>

\* Spectrum.__add__
AddCoeffs(a, b) ==
    [k \in DOMAIN a \cup DOMAIN b |-> RAdd(Get(a, k, Zero), Get(b, k, Zero))]

Add(a, b) ==
    LET msg == CheckCompatibility(objs[a], objs[b])
    IN  /\ Idle
        /\ Len(objs) < MaxObjs
        /\ IF msg # "" THEN Raise("add", a, b, 0, "ValueError", msg)
           ELSE Result("add", a, b, 0, AddCoeffs(Coeffs(objs[a]), Coeffs(objs[b])))
        /\ UNCHANGED <<div, nmut>>

\* Spectrum.__sub__
SubCoeffs(a, b) ==
    [k \in DOMAIN a \cup DOMAIN b |-> RSub(Get(a, k, Zero), Get(b, k, Zero))]

Sub(a, b) ==
    LET msg == CheckCompatibility(objs[a], objs[b])
    IN  /\ Idle
        /\ Len(objs) < MaxObjs
        /\ IF msg # "" THEN Raise("sub", a, b, 0, "ValueError", msg)
           ELSE Result("sub", a, b, 0, SubCoeffs(Coeffs(objs[a]), Coeffs(objs[b])))
        /\ UNCHANGED <<div, nmut>>

\* __mul__'s inner loop reading b at i instead of at j = idx - i
RECURSIVE MulValUnshifted(_, _, _, _, _)
MulValUnshifted(a, b, idx, todo, val) ==
    IF todo = <<>> THEN val
    ELSE MulValUnshifted(a, b, idx, Tail(todo),
                         RAdd(val, RMul(Get(a, Head(todo), Zero),
                                        Get(b, Head(todo), Zero))))

\* Spectrum.__mul__, Spectrum operand: the inner loop
\*   for i in product(*[range(k + 1) for k in idx]): val += a.get(i, 0) * b.get(j, 0)
RECURSIVE MulVal(_, _, _, _, _)
MulVal(a, b, idx, todo, val) ==
    IF todo = <<>> THEN val
    ELSE MulVal(a, b, idx, Tail(todo),
                RAdd(val, RMul(Get(a, Head(todo), Zero),
                               Get(b, Minus(idx, Head(todo)), Zero))))

\* the indices i the inner loops of __mul__ and __truediv__ visit for idx
InnerIndices(idx) == Product(UpTo(idx))

\* the outer loops' indices, last one first
RECURSIVE Reverse(_)
Reverse(q) == IF q = <<>> THEN <<>> ELSE Append(Reverse(Tail(q)), Head(q))

OuterIndicesDescending(order, n) == Reverse(Product(Repeat(order, n)))

\* the indices idx the outer loops of __mul__ and __truediv__ visit
OuterIndices(order, n) == Product(Repeat(order, n))

RECURSIVE MulLoop(_, _, _, _)
MulLoop(a, b, todo, coeffs) ==
    IF todo = <<>> THEN coeffs
    ELSE MulLoop(a, b, Tail(todo),
                 Put(coeffs, Head(todo),
                     MulVal(a, b, Head(todo), InnerIndices(Head(todo)), Zero)))

MulCoeffs(a, b, order, n) == MulLoop(a, b, OuterIndices(order, n), EmptyDict)

\* Spectrum.__mul__, scalar operand
ScalarMulCoeffs(a, c) == [k \in DOMAIN a |-> RMul(c, a[k])]

\* Spectrum.__mul__: other is a Spectrum, a scalar or some other value
Mul(a, other) ==
    /\ Idle
    /\ Len(objs) < MaxObjs
    /\ IF other.kind = "Spectrum"
       THEN LET msg == CheckCompatibility(objs[a], objs[other.v])
            IN  IF msg # "" THEN Raise("mul", a, other.v, 0, "ValueError", msg)
                ELSE Result("mul", a, other.v, 0,
                            MulCoeffs(Coeffs(objs[a]), Coeffs(objs[other.v]),
                                      objs[a].order, Len(objs[a].variables)))
       ELSE IF other.kind = "scalar"
       THEN Result("smul", a, 0, other.v, ScalarMulCoeffs(Coeffs(objs[a]), other.v))
       ELSE Raise("mul", a, 0, 0, "TypeError", "can't be multiplied")
    /\ UNCHANGED <<div, nmut>>

\* other.coeffs.get(zeros) of a missing key: None, which equals no number
None == <<0, 0>>

\* __truediv__'s inner loop leaving out the term at i = idx instead of the
\* one at j = idx
RECURSIVE DivValSkipsSelf(_, _, _, _, _)
DivValSkipsSelf(b, coeffs, idx, todo, val) ==
    IF todo = <<>> THEN val
    ELSE LET i == Head(todo)
             j == Minus(idx, i)
         IN  DivValSkipsSelf(b, coeffs, idx, Tail(todo),
                             IF i # idx
                             THEN RSub(val, RMul(Get(b, i, Zero), Get(coeffs, j, Zero)))
                             ELSE val)

\* Spectrum.__truediv__, Spectrum operand: the inner loop
\*   if j != idx: val -= b.get(i, 0) * coeffs.get(j, 0)
RECURSIVE DivVal(_, _, _, _, _)
DivVal(b, coeffs, idx, todo, val) ==
    IF todo = <<>> THEN val
    ELSE LET i == Head(todo)
             j == Minus(idx, i)
         IN  DivVal(b, coeffs, idx, Tail(todo),
                    IF j # idx
                    THEN RSub(val, RMul(Get(b, i, Zero), Get(coeffs, j, Zero)))
                    ELSE val)

\* a pass that stores val without dividing it by zeros_coeff
DivIterUndivided(a, b, zeros_coeff, coeffs, idx) ==
    Put(coeffs, idx, DivVal(b, coeffs, idx, Product(UpTo(idx)), Get(a, idx, Zero)))

\* one pass of the outer loop: coeffs[idx] = val / zeros_coeff
DivIter(a, b, zeros_coeff, coeffs, idx) ==
    Put(coeffs, idx,
        RDiv(DivVal(b, coeffs, idx, InnerIndices(idx), Get(a, idx, Zero)), zeros_coeff))

RECURSIVE DivLoop(_, _, _, _, _)
DivLoop(a, b, zeros_coeff, todo, coeffs) ==
    IF todo = <<>> THEN coeffs
    ELSE DivLoop(a, b, zeros_coeff, Tail(todo),
                 DivIter(a, b, zeros_coeff, coeffs, Head(todo)))

DivCoeffs(a, b, order, n) ==
    DivLoop(a, b, b[Repeat(0, n)], OuterIndices(order, n), EmptyDict)

\* Spectrum.__truediv__, scalar operand
ScalarDivCoeffs(a, c) == [k \in DOMAIN a |-> RDiv(a[k], c)]

\* What __truediv__ raises before its loops for a Spectrum operand: the
\* ValueError of _check_compatibility, the ZeroDivisionError of a zero leading
\* coefficient, or the TypeError of "val / None" in the first pass.
DivError(self, other) ==
    LET msg == CheckCompatibility(self, other)
        zeros_coeff == Get(Coeffs(other), Repeat(0, Len(self.variables)), None)
    IN  IF msg # "" THEN [exc |-> "ValueError", msg |-> msg]
        ELSE IF zeros_coeff = Zero
        THEN [exc |-> "ZeroDivisionError",
              msg |-> "Leading coefficient of denominator is zero."]
        ELSE IF zeros_coeff = None
        THEN [exc |-> "TypeError", msg |-> "unsupported operand type(s) for /"]
        ELSE [exc |-> "", msg |-> ""]

\* Spectrum.__truediv__: other is a Spectrum, a scalar or some other value
TrueDiv(a, other) ==
    /\ Idle
    /\ Len(objs) < MaxObjs
    /\ IF other.kind = "Spectrum"
       THEN LET err == DivError(objs[a], objs[other.v])
            IN  IF err.exc # "" THEN Raise("div", a, other.v, 0, err.exc, err.msg)
                ELSE Result("div", a, other.v, 0,
                            DivCoeffs(Coeffs(objs[a]), Coeffs(objs[other.v]),
                                      objs[a].order, Len(objs[a].variables)))
       ELSE IF other.kind = "scalar"
       THEN IF other.v = Zero
            THEN Raise("sdiv", a, 0, other.v, "ZeroDivisionError", "Division by zero.")
            ELSE Result("sdiv", a, 0, other.v, ScalarDivCoeffs(Coeffs(objs[a]), other.v))
       ELSE Raise("div", a, 0, 0, "TypeError", "can only be divided by")
    /\ UNCHANGED <<div, nmut>>

\* Spectrum.__truediv__ with a Spectrum operand, one pass of its outer loop
\* at a time: the checks before the loop ...
DivBegin(a, b) ==
    LET err == DivError(objs[a], objs[b])
    IN  /\ Idle
        /\ Len(objs) < MaxObjs
        /\ IF err.exc # ""
           THEN Raise("div", a, b, 0, err.exc, err.msg) /\ UNCHANGED div
           ELSE /\ div' = [active |-> TRUE, a |-> a, b |-> b, pos |-> 1,
                           coeffs |-> EmptyDict]
                /\ UNCHANGED <<objs, heap, last>>
        /\ UNCHANGED nmut

\* the outer loop's index sequence of the running division
DivIndices == OuterIndices(objs[div.a].order, Len(objs[div.a].variables))

\* ... and a pass "for idx in product(...)", the last one returning new
DivStep ==
    LET idx == DivIndices[div.pos]
        b == Coeffs(objs[div.b])
        coeffs == DivIter(Coeffs(objs[div.a]), b,
                          b[Repeat(0, Len(objs[div.a].variables))], div.coeffs, idx)
    IN  /\ div.active
        /\ IF div.pos = Len(DivIndices)
           THEN Result("div", div.a, div.b, 0, coeffs) /\ div' = NoDiv
           ELSE /\ div' = [div EXCEPT !.pos = @ + 1, !.coeffs = coeffs]
                /\ UNCHANGED <<objs, heap, last>>
        /\ UNCHANGED nmut

\* inverse's term with the powers of var / scaling, the center forgotten
RECURSIVE InverseTermUncentered(_, _, _, _, _, _)
InverseTermUncentered(variables, idx, center, scaling, point, term) ==
    IF idx = <<>> THEN term
    ELSE LET var == Head(variables)
         IN  InverseTermUncentered(Tail(variables), Tail(idx), center, scaling, point,
                                   RMul(term, RPow(Rat(point[var], scaling[var]), Head(idx))))

\* Spectrum.inverse, evaluated at a point: the value of
\*   sum(coeff * prod(((var - a) / scaling[var]) ** power))
RECURSIVE InverseTerm(_, _, _, _, _, _)
InverseTerm(variables, idx, center, scaling, point, term) ==
    IF idx = <<>> THEN term
    ELSE LET var == Head(variables)
             a == Get(center, var, 0)
         IN  InverseTerm(Tail(variables), Tail(idx), center, scaling, point,
                         RMul(term, RPow(Rat(point[var] - a, scaling[var]), Head(idx))))

RECURSIVE InverseSum(_, _, _, _)
InverseSum(s, coeffs, keys, point) ==
    IF keys = {} THEN Zero
    ELSE LET k == CHOOSE x \in keys : TRUE
         IN  RAdd(InverseTerm(s.variables, k, Center(s), Scaling(s), point, coeffs[k]),
                  InverseSum(s, coeffs, keys \ {k}, point))

InverseAt(s, point) == InverseSum(s, Coeffs(s), DOMAIN Coeffs(s), point)

\* A client writing through the dict a property returns:
\* s.center[var] = value
SetCenter(a, var, value) ==
    /\ Idle
    /\ nmut < MaxMutations
    /\ heap' = [heap EXCEPT ![objs[a].center] = Put(@, var, value)]
    /\ last' = Call("set_center", a, 0, value, 0, "", "", var)
    /\ nmut' = nmut + 1
    /\ UNCHANGED <<objs, div>>

\* s.scaling[var] = value
SetScaling(a, var, value) ==
    /\ Idle
    /\ nmut < MaxMutations
    /\ heap' = [heap EXCEPT ![objs[a].scaling] = Put(@, var, value)]
    /\ last' = Call("set_scaling", a, 0, value, 0, "", "", var)
    /\ nmut' = nmut + 1
    /\ UNCHANGED <<objs, div>>

\* del s.coeffs[key]
DelCoeff(a, key) ==
    /\ Idle
    /\ nmut < MaxMutations
    /\ heap' = [heap EXCEPT ![objs[a].coeffs] = [k \in DOMAIN @ \ {key} |-> @[k]]]
    /\ last' = Call("del_coeff", a, 0, key, 0, "", "", "")
    /\ nmut' = nmut + 1
    /\ UNCHANGED <<objs, div>>

\* the values a client passes as the right operand of * and /
SpectrumArg(b) == [kind |-> "Spectrum", v |-> b]
ScalarArg(c) == [kind |-> "scalar", v |-> c]
StrArg == [kind |-> "str", v |-> 0]

Next ==
    \/ \E expr \in Exprs, args \in ArgSets : Construct(expr, args)
    \/ \E a \in DOMAIN objs : Neg(a)
    \/ \E a, b \in DOMAIN objs : Add(a, b)
    \/ \E a, b \in DOMAIN objs : Sub(a, b)
    \/ \E a, b \in DOMAIN objs : Mul(a, SpectrumArg(b))
    \/ \E a \in DOMAIN objs, c \in Scalars : Mul(a, ScalarArg(c))
    \/ \E a \in DOMAIN objs : Mul(a, StrArg)
    \/ \E a, b \in DOMAIN objs : TrueDiv(a, SpectrumArg(b))
    \/ \E a \in DOMAIN objs, c \in Scalars : TrueDiv(a, ScalarArg(c))
    \/ \E a \in DOMAIN objs : TrueDiv(a, StrArg)

Spec == Init /\ [][Next]_vars

\* Division run pass by pass.
NextDiv ==
    \/ \E expr \in Exprs, args \in ArgSets : Construct(expr, args)
    \/ \E a, b \in DOMAIN objs : DivBegin(a, b)
    \/ DivStep

SpecDiv == Init /\ [][NextDiv]_vars

\* The operators together with a client that writes through the exposed dicts.
NextExposed ==
    \/ Next
    \/ \E a \in DOMAIN objs : \E var \in DOMAIN Center(objs[a]) : SetCenter(a, var, 7)
    \/ \E a \in DOMAIN objs : \E var \in DOMAIN Scaling(objs[a]) : SetScaling(a, var, 3)
    \/ \E a \in DOMAIN objs : \E key \in DOMAIN Coeffs(objs[a]) : DelCoeff(a, key)

SpecExposed == Init /\ [][NextExposed]_vars

-----------------------------------------------------------------------------
\* Properties.  The index sets they use are written as sets of tuples,
\* independently of the loops' enumeration.

\* {0..N-1}^n
Indices(N, n) == [1..n -> 0..(N - 1)]

\* the multi-indices i with 0 <= i_m <= k_m on every axis
BelowEq(k) == {i \in [1..Len(k) -> 0..MaxOrder] : \A m \in 1..Len(k) : i[m] <= k[m]}

AllZero(n) == [m \in 1..n |-> 0]

IsBinary(op) == op \in {"add", "sub", "mul", "div"}

\* the operands and the result of the last call
OpA == objs[last.a]
OpB == objs[last.b]
OpR == objs[last.res]

\* sum over S of a[i] * b[k - i], a missing entry counting as 0
RECURSIVE ConvSum(_, _, _, _)
ConvSum(a, b, k, S) ==
    IF S = {} THEN Zero
    ELSE LET i == CHOOSE x \in S : TRUE
         IN  RAdd(RMul(Get(a, i, Zero), Get(b, Minus(k, i), Zero)),
                  ConvSum(a, b, k, S \ {i}))

\* C1: the product of two compatible Series has exactly the keys {0..N-1}^d,
\* and its entry at k is the sum over all i <= k of a[i] * b[k - i].
C1_MulIsConvolution ==
    (last.op = "mul" /\ last.res # 0) =>
        LET a == Coeffs(OpA)
            b == Coeffs(OpB)
            r == Coeffs(OpR)
        IN  /\ DOMAIN r = Indices(OpA.order, Len(OpA.variables))
            /\ \A k \in DOMAIN r : r[k] = ConvSum(a, b, k, BelowEq(k))

C1_Witness ==
    /\ last.op = "mul" /\ last.res # 0 /\ last.a # last.b
    /\ OpA.order = MaxOrder /\ Len(OpA.variables) = 2
    /\ \A k \in DOMAIN Coeffs(OpR) : Coeffs(OpR)[k] # Zero

\* C2 as stated: the quotient's entry at k is
\*   (a[k] - sum over i <= k, i # k, of b[i] * result[k - i]) / b[0].
C2_DivExcludesSelf ==
    (last.op = "div" /\ last.res # 0) =>
        LET a == Coeffs(OpA)
            b == Coeffs(OpB)
            r == Coeffs(OpR)
            b0 == Get(b, AllZero(Len(OpA.variables)), Zero)
        IN  \A k \in Indices(OpA.order, Len(OpA.variables)) :
                r[k] = RDiv(RSub(Get(a, k, Zero), ConvSum(b, r, k, BelowEq(k) \ {k})), b0)

\* C2 amended: the term left out of the sum is the one at i = 0, that is
\* b[0] * result[k]:
\*   result[k] = (a[k] - sum over i <= k, i # 0, of b[i] * result[k - i]) / b[0].
C2_DivExcludesZero ==
    (last.op = "div" /\ last.res # 0) =>
        LET a == Coeffs(OpA)
            b == Coeffs(OpB)
            r == Coeffs(OpR)
            zeros == AllZero(Len(OpA.variables))
            b0 == Get(b, zeros, Zero)
        IN  /\ DOMAIN r = Indices(OpA.order, Len(OpA.variables))
            /\ \A k \in DOMAIN r :
                r[k] = RDiv(RSub(Get(a, k, Zero), ConvSum(b, r, k, BelowEq(k) \ {zeros})), b0)

C2_Witness ==
    /\ last.op = "div" /\ last.res # 0 /\ last.a # last.b
    /\ OpA.order = MaxOrder /\ Len(OpA.variables) = 2
    /\ \A k \in DOMAIN Coeffs(OpB) : Coeffs(OpB)[k] # Zero
    /\ \A k \in DOMAIN Coeffs(OpR) : Coeffs(OpR)[k] # Zero

\* the center of a Series as an evaluation point
CenterPoint(s) == Center(s)

\* C3: inverse() of A+B, A-B, A*B, A/B evaluated at the center is the sum,
\* difference, product, quotient of A.inverse() and B.inverse() at the
\* center, which are the two constant coefficients.
C3_CenterValueCommutes ==
    (IsBinary(last.op) /\ last.res # 0) =>
        LET pt == CenterPoint(OpA)
            zeros == AllZero(Len(OpA.variables))
            va == InverseAt(OpA, pt)
            vb == InverseAt(OpB, pt)
            vr == InverseAt(OpR, pt)
        IN  /\ va = Coeffs(OpA)[zeros]
            /\ vb = Coeffs(OpB)[zeros]
            /\ vr = CASE last.op = "add" -> RAdd(va, vb)
                      [] last.op = "sub" -> RSub(va, vb)
                      [] last.op = "mul" -> RMul(va, vb)
                      [] last.op = "div" -> RDiv(va, vb)

C3_Witness ==
    /\ last.op = "div" /\ last.res # 0 /\ last.a # last.b
    /\ OpA.order = MaxOrder /\ Len(OpA.variables) = 2
    /\ Scaling(OpA)["x"] # 1
    /\ InverseAt(OpR, CenterPoint(OpA)) \notin {Zero, RInt(1)}

\* the denominator's constant coefficient, a missing entry counting as zero
ConstantTerm(s) == Get(Coeffs(s), AllZero(Len(s.variables)), Zero)

Compatible(s, t) ==
    /\ s.variables = t.variables
    /\ s.order = t.order
    /\ Scaling(s) = Scaling(t)
    /\ Center(s) = Center(t)

\* C4: dividing by a compatible Series whose constant coefficient is zero
\* (or missing), or by the scalar 0, raises a division-by-zero error and
\* returns no Series.
C4_ZeroGuard ==
    /\ (last.op = "div" /\ last.b # 0 /\ Compatible(OpA, OpB) /\ ConstantTerm(OpB) = Zero)
          => (last.exc = "ZeroDivisionError" /\ last.res = 0)
    /\ (last.op = "sdiv" /\ last.arg = Zero)
          => (last.exc = "ZeroDivisionError" /\ last.res = 0)

\* C5: a binary operator on two Series that differ in variables, order,
\* scaling or center raises the incompatibility error of the first attribute
\* that differs, in that order, and returns no Series.
C5_IncompatibleRaises ==
    (IsBinary(last.op) /\ last.b # 0 /\ ~Compatible(OpA, OpB)) =>
        /\ last.exc = "ValueError"
        /\ last.res = 0
        /\ (OpA.variables # OpB.variables) => last.msg = "Variables do not match."
        /\ (OpA.variables = OpB.variables /\ OpA.order # OpB.order)
              => last.msg = "Expansion order mismatch."
        /\ (OpA.variables = OpB.variables /\ OpA.order = OpB.order
               /\ Scaling(OpA) # Scaling(OpB))
              => last.msg = "Scaling constants mismatch."
        /\ (OpA.variables = OpB.variables /\ OpA.order = OpB.order
               /\ Scaling(OpA) = Scaling(OpB))
              => last.msg = "Expansion center mismatch."

\* two Series that differ in scaling and in center, and in nothing before
C5_Witness ==
    /\ IsBinary(last.op) /\ last.b # 0
    /\ OpA.variables = OpB.variables /\ OpA.order = OpB.order
    /\ Scaling(OpA) # Scaling(OpB) /\ Center(OpA) # Center(OpB)
    /\ last.msg = "Scaling constants mismatch."

\* the keys of the scaling argument whose value is not strictly positive
NonPositive(scaling) == {v \in DOMAIN scaling : scaling[v] <= 0}

\* C6 as stated: any value of the scaling mapping that is not strictly
\* positive makes construction fail with an invalid-argument error.
C6_AnyScalingValue ==
    (last.op = "init" /\ NonPositive(last.arg.scaling) # {}) =>
        (last.exc = "ValueError" /\ last.res = 0)

\* C6 amended: a non-positive or non-integer order fails with the order's
\* invalid-argument error; otherwise a non-positive scaling value supplied
\* for a variable of the expression fails with an invalid-argument error
\* naming such a variable; either way no Series is produced.
C6_ScalingOfVariables ==
    (last.op = "init") =>
        LET order == last.arg.order
            offending == NonPositive(last.arg.scaling) \cap FreeSymbols(Sympify(last.arg.expr))
        IN  /\ (~order.int \/ order.v <= 0) =>
                  /\ last.exc = "ValueError" /\ last.res = 0
                  /\ last.msg = "Order must be a positive integer"
            /\ (order.int /\ order.v > 0 /\ offending # {}) =>
                  /\ last.exc = "ValueError" /\ last.res = 0
                  /\ last.msg = "Scaling constant for variable"
                  /\ last.var \in offending

C6_Witness ==
    /\ last.op = "init" /\ last.exc = "ValueError"
    /\ last.arg.order.int /\ last.arg.order.v > 0
    /\ last.arg.scaling["y"] = 0 /\ last.var = "y"
    /\ Len(objs) = 1

\* C7: when the pass for idx starts, result[j] is stored for every j <= idx
\* other than idx, so that no term reads an entry solved only later.
C7_DependenciesSolved ==
    div.active =>
        LET idx == DivIndices[div.pos]
        IN  \A j \in BelowEq(idx) \ {idx} : j \in DOMAIN div.coeffs

C7_Witness ==
    /\ div.active
    /\ div.pos = Len(DivIndices)
    /\ Cardinality(BelowEq(DivIndices[div.pos])) > 3

\* the dicts reachable through a Series' properties
Exposed(s) == <<heap[s.center], heap[s.scaling], heap[s.coeffs]>>

\* C8: a write made through one Series' exposed center, scaling or coeffs
\* dict is not visible through any other Series.
C8_NoSharedMapping ==
    [][ (nmut' = nmut + 1) =>
            \A i \in DOMAIN objs : i # last'.a => Exposed(objs[i])' = Exposed(objs[i]) ]_vars

\* C9: every Series made by the constructor and the operators has exactly
\* the keys {0..N-1}^d.
C9_DenseTable ==
    \A i \in DOMAIN objs :
        DOMAIN Coeffs(objs[i]) = Indices(objs[i].order, Len(objs[i].variables))

C9_Witness ==
    /\ Len(objs) = MaxObjs
    /\ last.op = "div" /\ last.res = MaxObjs
    /\ \E k \in DOMAIN Coeffs(OpR) : Coeffs(OpR)[k] = Zero

====
